---- MODULE Spec2Model ----
(***************************************************************************)
(* A model of src/injestion/load_document.py: the storage adapter          *)
(* (DefaultFileSystem), the HTTP downloader, the load service and the      *)
(* document repository, acting on one small filesystem.                    *)
(*                                                                         *)
(* A path is the tuple pathlib calls its `parts`: the root "/" followed by *)
(* the component names.  A file's content is a sequence of bytes.  What    *)
(* the environment decides (the server's answer, whether the OS lets a     *)
(* directory be made or a write go through) is chosen with \E.             *)
(***************************************************************************)
EXTENDS Integers, Sequences, FiniteSets, TLC

\* ------------------------------------------------------------------ bounds
MaxDepth == 3       \* components below the root in a filesystem path
MaxBody == 2        \* bytes in a response body or a file
MaxNameLen == 3     \* tokens in a filename handed to get_document_path

\* ------------------------------------------------------------------ values
Root == <<"/">>
FsNames == {"docs"}
Bytes == {0, 1}
Urls == {"u1", "u2"}
\* The statuses a server answers with: success, not-modified (a 3xx that no
\* redirect is followed for), an error.
Statuses == {200, 304, 404}
NoError == "none"

RECURSIVE PathsOfDepth(_)
PathsOfDepth(n) ==
    IF n = 0 THEN {Root}
    ELSE {Append(p, c) : p \in PathsOfDepth(n - 1), c \in FsNames}

AllPaths == UNION {PathsOfDepth(n) : n \in 0..MaxDepth}
Dests == AllPaths \ {Root}

Bodies == UNION {[1..n -> Bytes] : n \in 0..MaxBody}

\* pathlib's PurePath.parent: the root is its own parent.
Parent(p) == IF Len(p) <= 1 THEN p ELSE SubSeq(p, 1, Len(p) - 1)

Ancestors(p) == {SubSeq(p, 1, n) : n \in 1..(Len(p) - 1)}

NoEntry == [kind |-> "none", content |-> <<>>]
DirEntry == [kind |-> "dir", content |-> <<>>]
FileEntry(c) == [kind |-> "file", content |-> c]

PathExists(f, p) == f[p].kind # "none"
IsDir(f, p) == f[p].kind = "dir"
IsFile(f, p) == f[p].kind = "file"

IsPrefix(s, t) == Len(s) <= Len(t) /\ SubSeq(t, 1, Len(s)) = s
IsStrictPrefix(s, t) == IsPrefix(s, t) /\ Len(s) < Len(t)

\* ------------------------------------------------------- pathlib on the disk
\* Path.mkdir with exist_ok left False: an existing directory is an error.
MkdirNoExistOk(f, p, quota) ==
    IF PathExists(f, p)
    THEN [fs |-> f, err |-> "FileExistsError", quota |-> quota]
    ELSE IF \E a \in Ancestors(p) : IsFile(f, a)
    THEN [fs |-> f, err |-> "NotADirectoryError", quota |-> quota]
    ELSE [fs |-> [q \in AllPaths |->
                    IF q \in Ancestors(p) \cup {p} /\ ~PathExists(f, q)
                    THEN DirEntry ELSE f[q]],
          err |-> NoError, quota |-> quota]

\* Path.mkdir(parents=True, exist_ok=True).  quota is how many directories the
\* OS lets this call make before it answers PermissionError; what was made
\* before the failure stays.  Returns the filesystem, the error, the quota left.
RECURSIVE Mkdir(_, _, _)
Mkdir(f, p, quota) ==
    LET osMkdir(g, q) ==
            IF q = 0
            THEN [fs |-> g, err |-> "PermissionError", quota |-> 0]
            ELSE [fs |-> [g EXCEPT ![p] = DirEntry], err |-> NoError,
                  quota |-> q - 1]
    IN  IF PathExists(f, p)
        THEN \* os.mkdir: FileExistsError, silenced when p is a directory
             IF IsDir(f, p)
             THEN [fs |-> f, err |-> NoError, quota |-> quota]
             ELSE [fs |-> f, err |-> "FileExistsError", quota |-> quota]
        ELSE IF IsDir(f, Parent(p)) THEN osMkdir(f, quota)
        ELSE IF \E a \in Ancestors(p) : IsFile(f, a)
        THEN [fs |-> f, err |-> "NotADirectoryError", quota |-> quota]
        ELSE \* FileNotFoundError: make the parents, then p
             LET r == Mkdir(f, Parent(p), quota)
             IN  IF r.err # NoError THEN r ELSE osMkdir(r.fs, r.quota)

\* The directories a mkdir of p with its parents has to make.  The OS gets to
\* refuse as many creations as there are directories missing, and no more.
MissingDirs(f, p) ==
    Cardinality({a \in Ancestors(p) \cup {p} : ~PathExists(f, a)})

\* What the OS does to one write_bytes: lets it through, refuses the open, or
\* fails the write after n bytes.
WriteOutcomes ==
    {[kind |-> "ok", n |-> 0], [kind |-> "deny", n |-> 0]}
        \cup {[kind |-> "short", n |-> n] : n \in 0..(MaxBody - 1)}

\* open(path, "wb"): the error, or the file created or truncated to nothing.
OpenTrunc(f, p, wr) ==
    IF \E a \in Ancestors(p) : IsFile(f, a)
    THEN [fs |-> f, err |-> "NotADirectoryError"]
    ELSE IF ~IsDir(f, Parent(p)) THEN [fs |-> f, err |-> "FileNotFoundError"]
    ELSE IF IsDir(f, p) THEN [fs |-> f, err |-> "IsADirectoryError"]
    ELSE IF wr.kind = "deny" THEN [fs |-> f, err |-> "PermissionError"]
    ELSE [fs |-> [f EXCEPT ![p] = FileEntry(<<>>)], err |-> NoError]

\* Bytes written at offset 0 of an open file: they replace what is there and
\* leave what lies beyond them.
Overlay(old, new) == new \o SubSeq(old, Len(new) + 1, Len(old))

\* A write that lands after what the file holds.
WriteAtAppend(f, p, content, wr) ==
    IF wr.kind = "short" /\ wr.n < Len(content)
    THEN [fs |-> [f EXCEPT ![p] =
                    FileEntry(f[p].content \o SubSeq(content, 1, wr.n))],
          err |-> "OSError"]
    ELSE [fs |-> [f EXCEPT ![p] = FileEntry(f[p].content \o content)],
          err |-> NoError]

\* f.write(content) on the open file, then close.
WriteAt(f, p, content, wr) ==
    IF wr.kind = "short" /\ wr.n < Len(content)
    THEN [fs |-> [f EXCEPT ![p] =
                    FileEntry(Overlay(f[p].content, SubSeq(content, 1, wr.n)))],
          err |-> "OSError"]
    ELSE [fs |-> [f EXCEPT ![p] = FileEntry(Overlay(f[p].content, content))],
          err |-> NoError]

\* The same with the file opened for appending.
WriteBytesAppend(f, p, content, wr) ==
    LET o == OpenTrunc(f, p, wr)
    IN  IF o.err # NoError THEN o
        ELSE [fs |-> [f EXCEPT ![p] = FileEntry(f[p].content \o content)],
              err |-> NoError]

\* Path.write_bytes(content): open for writing, write, close.
WriteBytes(f, p, content, wr) ==
    LET o == OpenTrunc(f, p, wr)
    IN  IF o.err # NoError THEN o ELSE WriteAt(o.fs, p, content, wr)

\* ------------------------------------------------------------ the HTTP side
\* What requests.get meets: no answer (connection refused, timeout), or a
\* response with a status and a body; reading a streamed body may break off,
\* and then there is no body to speak of.
Responses ==
    {[kind |-> "refused", status |-> 0, body |-> <<>>, truncated |-> FALSE]}
        \cup [kind : {"response"}, status : Statuses, body : {<<>>},
              truncated : {TRUE}]
        \cup [kind : {"response"}, status : Statuses, body : Bodies,
              truncated : {FALSE}]

\* The request brought a whole body.
HasBody(resp) == resp.kind = "response" /\ ~resp.truncated

\* What the environment decides during one call.  Without a body there is
\* nothing to write, and nothing for the OS to decide about a write.
Envs ==
    {e \in [resp : Responses, quota : 0..MaxDepth, wr : WriteOutcomes] :
        ~HasBody(e.resp) => e.wr.kind = "ok"}

RaiseForStatusNever(status) == NoError

\* Response.raise_for_status(): HTTPError for a 4xx or 5xx status only.
RaiseForStatus(status) ==
    IF 400 <= status /\ status < 600 THEN "HTTPError" ELSE NoError

\* A download that writes the body first and looks at the status after.
DownloadWriteFirst(f, url, destination, env) ==
    IF env.resp.kind = "refused"
    THEN [fs |-> f, err |-> "ConnectionError", gets |-> <<url>>,
          quota |-> env.quota]
    ELSE LET m == Mkdir(f, Parent(destination), env.quota)
             w == WriteBytes(m.fs, destination, env.resp.body, env.wr)
         IN  IF m.err # NoError
             THEN [fs |-> m.fs, err |-> m.err, gets |-> <<url>>,
                   quota |-> m.quota]
             ELSE IF w.err # NoError
             THEN [fs |-> w.fs, err |-> w.err, gets |-> <<url>>,
                   quota |-> m.quota]
             ELSE [fs |-> w.fs, err |-> RaiseForStatus(env.resp.status),
                   gets |-> <<url>>, quota |-> m.quota]

\* HTTPDocumentDownloader.download: the filesystem after it, the error it
\* raised, the GETs it issued.
Download(f, url, destination, env) ==
    IF env.resp.kind = "refused"
    THEN [fs |-> f, err |-> "ConnectionError", gets |-> <<url>>,
          quota |-> env.quota]
    ELSE IF RaiseForStatus(env.resp.status) # NoError
    THEN [fs |-> f, err |-> RaiseForStatus(env.resp.status),
          gets |-> <<url>>, quota |-> env.quota]
    ELSE LET m == Mkdir(f, Parent(destination), env.quota)
         IN  IF m.err # NoError
             THEN [fs |-> m.fs, err |-> m.err, gets |-> <<url>>,
                   quota |-> m.quota]
             ELSE IF env.resp.truncated
             THEN \* response.content raises before write_bytes is entered
                  [fs |-> m.fs, err |-> "ChunkedEncodingError",
                   gets |-> <<url>>, quota |-> m.quota]
             ELSE LET w == WriteBytes(m.fs, destination, env.resp.body, env.wr)
                  IN  [fs |-> w.fs, err |-> w.err, gets |-> <<url>>,
                       quota |-> m.quota]

\* ------------------------------------------------------------ the adapter
FsExists(f, path) == PathExists(f, path)

FsWriteBytes(f, path, content, wr) == WriteBytes(f, path, content, wr)

FsCreateDirectory(f, path, quota) == Mkdir(f, path, quota)

\* ------------------------------------------------------------ the service
\* One entry of the log of calls the service made on its two ports.
PortCall(port, path, url) == [port |-> port, path |-> path, url |-> url]

\* The service's results, shared by the variants below.
Loaded(f, ret, err, trace, cderr, dlerr, gets) ==
    [fs |-> f, ret |-> ret, err |-> err, trace |-> trace, cderr |-> cderr,
     dlerr |-> dlerr, gets |-> gets]

\* A service that never looks whether the destination exists.
LoadDocumentNoSkip(f, url, destination, skip_if_exists, env) ==
    LET c == FsCreateDirectory(f, Parent(destination), env.quota)
        d == Download(c.fs, url, destination, [env EXCEPT !.quota = c.quota])
        t1 == <<PortCall("create_directory", Parent(destination), "")>>
        t2 == Append(t1, PortCall("download", destination, url))
    IN  IF c.err # NoError
        THEN Loaded(c.fs, "raised", c.err, t1, c.err, NoError, <<>>)
        ELSE IF d.err # NoError
        THEN Loaded(d.fs, "raised", d.err, t2, NoError, d.err, d.gets)
        ELSE Loaded(d.fs, "True", NoError, t2, NoError, NoError, d.gets)

\* A service that makes the parent directory only when it is missing.
LoadDocumentLazyMkdir(f, url, destination, skip_if_exists, env) ==
    LET asked == IF skip_if_exists
                 THEN <<PortCall("exists", destination, "")>> ELSE <<>>
        need == ~FsExists(f, Parent(destination))
        c == IF need THEN FsCreateDirectory(f, Parent(destination), env.quota)
             ELSE [fs |-> f, err |-> NoError, quota |-> env.quota]
        d == Download(c.fs, url, destination, [env EXCEPT !.quota = c.quota])
        t1 == IF need
              THEN Append(asked, PortCall("create_directory",
                                          Parent(destination), ""))
              ELSE asked
        t2 == Append(t1, PortCall("download", destination, url))
    IN  IF skip_if_exists /\ FsExists(f, destination)
        THEN Loaded(f, "False", NoError, asked, NoError, NoError, <<>>)
        ELSE IF c.err # NoError
        THEN Loaded(c.fs, "raised", c.err, t1, c.err, NoError, <<>>)
        ELSE IF d.err # NoError
        THEN Loaded(d.fs, "raised", d.err, t2, NoError, d.err, d.gets)
        ELSE Loaded(d.fs, "True", NoError, t2, NoError, NoError, d.gets)

\* A service that catches the downloader's error and reports a skip.
LoadDocumentSwallow(f, url, destination, skip_if_exists, env) ==
    LET asked == IF skip_if_exists
                 THEN <<PortCall("exists", destination, "")>> ELSE <<>>
        c == FsCreateDirectory(f, Parent(destination), env.quota)
        d == Download(c.fs, url, destination, [env EXCEPT !.quota = c.quota])
        t1 == Append(asked, PortCall("create_directory",
                                     Parent(destination), ""))
        t2 == Append(t1, PortCall("download", destination, url))
    IN  IF skip_if_exists /\ FsExists(f, destination)
        THEN Loaded(f, "False", NoError, asked, NoError, NoError, <<>>)
        ELSE IF c.err # NoError
        THEN Loaded(c.fs, "raised", c.err, t1, c.err, NoError, <<>>)
        ELSE IF d.err # NoError
        THEN Loaded(d.fs, "False", NoError, t2, NoError, d.err, d.gets)
        ELSE Loaded(d.fs, "True", NoError, t2, NoError, NoError, d.gets)

\* A service that goes on to download when create_directory has raised.
LoadDocumentIgnoreMkdirError(f, url, destination, skip_if_exists, env) ==
    LET asked == IF skip_if_exists
                 THEN <<PortCall("exists", destination, "")>> ELSE <<>>
        c == FsCreateDirectory(f, Parent(destination), env.quota)
        d == Download(c.fs, url, destination, [env EXCEPT !.quota = c.quota])
        t1 == Append(asked, PortCall("create_directory",
                                     Parent(destination), ""))
        t2 == Append(t1, PortCall("download", destination, url))
    IN  IF skip_if_exists /\ FsExists(f, destination)
        THEN Loaded(f, "False", NoError, asked, NoError, NoError, <<>>)
        ELSE IF d.err # NoError
        THEN Loaded(d.fs, "raised", d.err, t2, c.err, d.err, d.gets)
        ELSE Loaded(d.fs, "True", NoError, t2, c.err, NoError, d.gets)

\* A service that skips only a destination that holds something: an empty
\* file is downloaded again.
LoadDocumentSkipNonEmpty(f, url, destination, skip_if_exists, env) ==
    LET asked == IF skip_if_exists
                 THEN <<PortCall("exists", destination, "")>> ELSE <<>>
        c == FsCreateDirectory(f, Parent(destination), env.quota)
        d == Download(c.fs, url, destination, [env EXCEPT !.quota = c.quota])
        t1 == Append(asked, PortCall("create_directory",
                                     Parent(destination), ""))
        t2 == Append(t1, PortCall("download", destination, url))
    IN  IF /\ skip_if_exists /\ FsExists(f, destination)
           /\ ~(IsFile(f, destination) /\ f[destination].content = <<>>)
        THEN Loaded(f, "False", NoError, asked, NoError, NoError, <<>>)
        ELSE IF c.err # NoError
        THEN Loaded(c.fs, "raised", c.err, t1, c.err, NoError, <<>>)
        ELSE IF d.err # NoError
        THEN Loaded(d.fs, "raised", d.err, t2, NoError, d.err, d.gets)
        ELSE Loaded(d.fs, "True", NoError, t2, NoError, NoError, d.gets)

\* DocumentLoadService.load_document: the filesystem after it, what it
\* returned ("True", "False") or that it raised, the error, the port calls in
\* order, the errors create_directory and the downloader raised, and the GETs
\* issued.
LoadDocument(f, url, destination, skip_if_exists, env) ==
    LET asked == IF skip_if_exists
                 THEN <<PortCall("exists", destination, "")>> ELSE <<>>
        made == Append(asked, PortCall("create_directory",
                                       Parent(destination), ""))
        c == FsCreateDirectory(f, Parent(destination), env.quota)
        d == Download(c.fs, url, destination, [env EXCEPT !.quota = c.quota])
    IN  IF skip_if_exists /\ FsExists(f, destination)
        THEN [fs |-> f, ret |-> "False", err |-> NoError, trace |-> asked,
              cderr |-> NoError, dlerr |-> NoError, gets |-> <<>>]
        ELSE IF c.err # NoError
        THEN [fs |-> c.fs, ret |-> "raised", err |-> c.err, trace |-> made,
              cderr |-> c.err, dlerr |-> NoError, gets |-> <<>>]
        ELSE IF d.err # NoError
        THEN [fs |-> d.fs, ret |-> "raised", err |-> d.err,
              trace |-> Append(made, PortCall("download", destination, url)),
              cderr |-> NoError, dlerr |-> d.err, gets |-> d.gets]
        ELSE [fs |-> d.fs, ret |-> "True", err |-> NoError,
              trace |-> Append(made, PortCall("download", destination, url)),
              cderr |-> NoError, dlerr |-> NoError, gets |-> d.gets]

\* --------------------------------------------------------- the repository
\* A filename is a string, held as its tokens: a separator "/" or one
\* component; two components never stand side by side.
Tokens == {"/", ".", "..", "nested", "path.pdf"}

Filenames ==
    {f \in UNION {[1..n -> Tokens] : n \in 0..MaxNameLen} :
        \A i \in 1..(Len(f) - 1) : f[i] = "/" \/ f[i + 1] = "/"}

BaseDirs == AllPaths

IsSep(t) == t = "/"

\* The separators a string starts with.
RECURSIVE LeadingSeps(_)
LeadingSeps(f) ==
    IF f = <<>> \/ ~IsSep(Head(f)) THEN 0 ELSE 1 + LeadingSeps(Tail(f))

KeptPart(t) == ~IsSep(t) /\ t # "."

\* pathlib's `base / name` on POSIX: the name's components follow the base's,
\* empty and "." components are dropped, ".." is kept; a name that starts
\* with a separator replaces the base (exactly two separators make the root
\* "//").
PathJoin(base, name) ==
    IF LeadingSeps(name) = 0 THEN base \o SelectSeq(name, KeptPart)
    ELSE <<IF LeadingSeps(name) = 2 THEN "//" ELSE "/">>
            \o SelectSeq(name, KeptPart)

\* A repository that keeps only the last component of the name.
GetDocumentPathBasename(base, filename) ==
    LET parts == SelectSeq(filename, KeptPart)
    IN  IF parts = <<>> THEN base ELSE Append(base, parts[Len(parts)])

\* DocumentRepository.get_document_path
GetDocumentPath(base, filename) == PathJoin(base, filename)

\* DocumentRepository.ensure_directory_exists
EnsureDirectoryExists(f, base, quota) == Mkdir(f, base, quota)

\* ------------------------------------------------------------------ state
VARIABLES
    fs,              \* the filesystem: path -> entry
    base_directory,  \* DocumentRepository.base_directory
    call,            \* the last call made, what it returned, the state before
    made,            \* the paths a directory creation has succeeded on
    th,              \* the threads of the concurrent run
    wlog,            \* the opens and writes of the concurrent run, in order
    partial          \* the files that are what a failed write left

vars == <<fs, base_directory, call, made, th, wlog, partial>>

EmptyFs == [p \in AllPaths |-> IF p = Root THEN DirEntry ELSE NoEntry]

NoResponse == [kind |-> "none", status |-> 0, body |-> <<>>,
               truncated |-> FALSE]

NoCall ==
    [op |-> "none", url |-> "", path |-> <<>>, skip |-> FALSE,
     filename |-> <<>>, content |-> <<>>, ret |-> "", err |-> NoError,
     trace |-> <<>>, cderr |-> NoError, dlerr |-> NoError,
     gets |-> <<>>, resp |-> NoResponse,
     result |-> <<>>, pre |-> EmptyFs, again |-> FALSE]

Threads == {1, 2}

\* A thread inside load_document(url, RaceDest): where it is, what exists()
\* told it, the body it holds, what it returned or raised.
IdleThread ==
    [pc |-> "idle", path |-> <<>>, saw |-> FALSE, body |-> <<>>,
     truncated |-> FALSE, ret |-> "", err |-> NoError]

\* The files that are the remains of a failed write, after a call on `path`:
\* a write that broke off after the open (OSError) leaves one, a write that
\* went through replaces it, anything else leaves the files alone.
Remains(path, wrote, err) ==
    IF err = "OSError" THEN partial \cup {path}
    ELSE IF wrote THEN partial \ {path}
    ELSE partial

\* ------------------------------------------------- the calls, one at a time
\* The program is single-threaded and synchronous: a call is made when the
\* one before has returned to its caller.
Init ==
    /\ fs = EmptyFs
    /\ base_directory = <<"/", "docs">>
    /\ call = NoCall
    /\ made = {}
    /\ th = [t \in Threads |-> IdleThread]
    /\ wlog = <<>>
    /\ partial = {}

LoadDocumentCall ==
    /\ call = NoCall
    /\ \E url \in Urls, destination \in Dests, skip \in BOOLEAN, env \in Envs :
        LET r == LoadDocument(fs, url, destination, skip, env)
        IN  /\ env.quota <= MissingDirs(fs, Parent(destination))
            /\ fs' = r.fs
            /\ call' = [NoCall EXCEPT
                    !.op = "load_document", !.url = url, !.path = destination,
                    !.skip = skip, !.ret = r.ret, !.err = r.err,
                    !.trace = r.trace, !.cderr = r.cderr, !.dlerr = r.dlerr,
                    !.gets = r.gets,
                    !.resp = IF r.gets = <<>> THEN NoResponse ELSE env.resp,
                    !.pre = fs]
            /\ UNCHANGED <<base_directory, made, th, wlog>>
            /\ partial' = Remains(destination, r.ret = "True", r.err)

DownloadCall ==
    /\ call = NoCall
    /\ \E url \in Urls, destination \in Dests, env \in Envs :
        LET r == Download(fs, url, destination, env)
        IN  /\ env.quota <= MissingDirs(fs, Parent(destination))
            /\ fs' = r.fs
            /\ call' = [NoCall EXCEPT
                    !.op = "download", !.url = url, !.path = destination,
                    !.ret = IF r.err = NoError THEN "None" ELSE "raised",
                    !.err = r.err, !.dlerr = r.err, !.gets = r.gets,
                    !.resp = env.resp, !.pre = fs]
            /\ UNCHANGED <<base_directory, made, th, wlog>>
            /\ partial' = Remains(destination, r.err = NoError, r.err)

ExistsCall ==
    /\ call = NoCall
    /\ \E path \in AllPaths :
        /\ call' = [NoCall EXCEPT
                !.op = "exists", !.path = path,
                !.ret = IF FsExists(fs, path) THEN "True" ELSE "False",
                !.pre = fs]
        /\ UNCHANGED <<fs, base_directory, made, th, wlog, partial>>

WriteBytesCall ==
    /\ call = NoCall
    /\ \E path \in AllPaths, content \in Bodies, wr \in WriteOutcomes :
        LET r == FsWriteBytes(fs, path, content, wr)
        IN  /\ fs' = r.fs
            /\ call' = [NoCall EXCEPT
                    !.op = "write_bytes", !.path = path, !.content = content,
                    !.ret = IF r.err = NoError THEN "None" ELSE "raised",
                    !.err = r.err, !.pre = fs]
            /\ UNCHANGED <<base_directory, made, th, wlog>>
            /\ partial' = Remains(path, r.err = NoError, r.err)

CreateDirectoryCall ==
    /\ call = NoCall
    /\ \E path \in AllPaths, quota \in 0..MaxDepth :
        LET r == FsCreateDirectory(fs, path, quota)
        IN  /\ fs' = r.fs
            /\ call' = [NoCall EXCEPT
                    !.op = "create_directory", !.path = path,
                    !.ret = IF r.err = NoError THEN "None" ELSE "raised",
                    !.err = r.err, !.pre = fs, !.again = path \in made]
            /\ made' = IF r.err = NoError THEN made \cup {path} ELSE made
            /\ UNCHANGED <<base_directory, th, wlog, partial>>

EnsureDirectoryExistsCall ==
    /\ call = NoCall
    /\ \E quota \in 0..MaxDepth :
        LET r == EnsureDirectoryExists(fs, base_directory, quota)
        IN  /\ fs' = r.fs
            /\ call' = [NoCall EXCEPT
                    !.op = "ensure_directory_exists", !.path = base_directory,
                    !.ret = IF r.err = NoError THEN "None" ELSE "raised",
                    !.err = r.err, !.pre = fs,
                    !.again = base_directory \in made]
            /\ made' = IF r.err = NoError
                       THEN made \cup {base_directory} ELSE made
            /\ UNCHANGED <<base_directory, th, wlog, partial>>

GetDocumentPathCall ==
    /\ call = NoCall
    /\ \E filename \in Filenames :
        /\ call' = [NoCall EXCEPT
                !.op = "get_document_path", !.path = base_directory,
                !.filename = filename,
                !.result = GetDocumentPath(base_directory, filename),
                !.ret = "Path", !.pre = fs]
        /\ UNCHANGED <<fs, base_directory, made, th, wlog, partial>>

\* The caller takes what the call returned or raised.
Return ==
    /\ call # NoCall
    /\ call' = NoCall
    /\ UNCHANGED <<fs, base_directory, made, th, wlog, partial>>

\* The load service over the HTTP downloader and the default adapter.
Next ==
    \/ LoadDocumentCall
    \/ DownloadCall
    \/ ExistsCall
    \/ WriteBytesCall
    \/ Return

Spec == Init /\ [][Next]_vars

\* A caller that does nothing but call load_document, again and again.
NextLoads ==
    \/ LoadDocumentCall
    \/ Return

SpecLoads == Init /\ [][NextLoads]_vars

\* The repository and the adapter's directory creation, for every base
\* directory the repository may be constructed with.
InitRepo ==
    /\ fs = EmptyFs
    /\ base_directory \in BaseDirs
    /\ call = NoCall
    /\ made = {}
    /\ th = [t \in Threads |-> IdleThread]
    /\ wlog = <<>>
    /\ partial = {}

NextRepo ==
    \/ GetDocumentPathCall
    \/ EnsureDirectoryExistsCall
    \/ CreateDirectoryCall
    \/ WriteBytesCall
    \/ ExistsCall
    \/ Return

SpecRepo == InitRepo /\ [][NextRepo]_vars

\* ------------------------------------------- two calls on one destination
\* Two threads call load_document(url, d) with skip_if_exists left True, for
\* the same absent d.  Nothing in the code locks, so the threads interleave
\* between any two operations on the filesystem; write_bytes itself is an
\* open (which truncates) and a write.
Raised(t, e) == [th EXCEPT ![t].pc = "done", ![t].ret = "raised", ![t].err = e]

InitRace ==
    /\ fs = EmptyFs
    /\ base_directory = <<"/", "docs">>
    /\ call = NoCall
    /\ made = {}
    /\ \E d \in Dests :
          th = [t \in Threads |-> [IdleThread EXCEPT !.pc = "check", !.path = d]]
    /\ wlog = <<>>
    /\ partial = {}

\* if skip_if_exists and self.file_system.exists(destination): return False
RaceCheck(t) ==
    /\ th[t].pc = "check"
    /\ th' = IF FsExists(fs, th[t].path)
             THEN [th EXCEPT ![t].pc = "done", ![t].saw = TRUE,
                             ![t].ret = "False"]
             ELSE [th EXCEPT ![t].pc = "create_directory"]
    /\ UNCHANGED <<fs, base_directory, call, made, wlog, partial>>

\* self.file_system.create_directory(destination.parent)
RaceCreateDirectory(t) ==
    /\ th[t].pc = "create_directory"
    /\ \E quota \in 0..MaxDepth :
          LET r == FsCreateDirectory(fs, Parent(th[t].path), quota)
          IN  /\ fs' = r.fs
              /\ th' = IF r.err # NoError THEN Raised(t, r.err)
                       ELSE [th EXCEPT ![t].pc = "get"]
    /\ UNCHANGED <<base_directory, call, made, wlog, partial>>

\* response = requests.get(...); response.raise_for_status()
RaceGet(t) ==
    /\ th[t].pc = "get"
    /\ \E resp \in Responses :
          th' = IF resp.kind = "refused" THEN Raised(t, "ConnectionError")
                ELSE IF RaiseForStatus(resp.status) # NoError
                THEN Raised(t, RaiseForStatus(resp.status))
                ELSE IF resp.truncated
                THEN [th EXCEPT ![t].pc = "mkdir", ![t].truncated = TRUE]
                ELSE [th EXCEPT ![t].pc = "mkdir", ![t].body = resp.body]
    /\ UNCHANGED <<fs, base_directory, call, made, wlog, partial>>

\* destination.parent.mkdir(parents=True, exist_ok=True)
RaceMkdir(t) ==
    /\ th[t].pc = "mkdir"
    /\ \E quota \in 0..MaxDepth :
          LET r == Mkdir(fs, Parent(th[t].path), quota)
          IN  /\ fs' = r.fs
              /\ th' = IF r.err # NoError THEN Raised(t, r.err)
                       ELSE [th EXCEPT ![t].pc = "open"]
    /\ UNCHANGED <<base_directory, call, made, wlog, partial>>

\* response.content is read, then write_bytes opens the destination
RaceOpen(t) ==
    /\ th[t].pc = "open"
    /\ IF th[t].truncated
       THEN /\ th' = Raised(t, "ChunkedEncodingError")
            /\ UNCHANGED <<fs, wlog>>
       ELSE \E wr \in WriteOutcomes :
              LET r == OpenTrunc(fs, th[t].path, wr)
              IN  /\ fs' = r.fs
                  /\ th' = IF r.err # NoError THEN Raised(t, r.err)
                           ELSE [th EXCEPT ![t].pc = "write"]
                  /\ wlog' = IF r.err # NoError THEN wlog
                             ELSE Append(wlog, [t |-> t, ev |-> "open",
                                                body |-> <<>>])
    /\ UNCHANGED <<base_directory, call, made, partial>>

\* write_bytes writes the body and closes; load_document returns True
RaceWrite(t) ==
    /\ th[t].pc = "write"
    /\ \E wr \in WriteOutcomes :
          LET r == WriteAt(fs, th[t].path, th[t].body, wr)
          IN  /\ fs' = r.fs
              /\ th' = IF r.err # NoError THEN Raised(t, r.err)
                       ELSE [th EXCEPT ![t].pc = "done", ![t].ret = "True"]
              /\ partial' = Remains(th[t].path, r.err = NoError, r.err)
              /\ wlog' = Append(wlog, [t |-> t, ev |-> "write",
                                       body |-> IF r.err # NoError
                                                THEN SubSeq(th[t].body, 1, wr.n)
                                                ELSE th[t].body])
    /\ UNCHANGED <<base_directory, call, made>>

NextRace ==
    \E t \in Threads :
        \/ RaceCheck(t)
        \/ RaceCreateDirectory(t)
        \/ RaceGet(t)
        \/ RaceMkdir(t)
        \/ RaceOpen(t)
        \/ RaceWrite(t)

SpecRace == InitRace /\ [][NextRace]_vars

\* ------------------------------------------------------------------ claims
\* How often the service called `port` during the call on record.
PortCount(port) ==
    Cardinality({i \in 1..Len(call.trace) : call.trace[i].port = port})

IsLoad == call.op = "load_document"

\* The skip branch of load_document is the one taken.
SkipCase == call.skip /\ FsExists(call.pre, call.path)

\* C1: when the destination exists and skip_if_exists is true, load_document
\* returns False, calls neither create_directory nor download, issues no
\* HTTP request, and leaves the destination (and the whole filesystem) as it
\* was.
C1_SkipWhenExists ==
    (IsLoad /\ SkipCase) =>
        /\ call.ret = "False"
        /\ PortCount("create_directory") = 0
        /\ PortCount("download") = 0
        /\ call.gets = <<>>
        /\ fs[call.path] = call.pre[call.path]
        /\ fs = call.pre

C1_Witness ==
    /\ IsLoad /\ SkipCase
    /\ IsFile(call.pre, call.path)
    /\ call.pre[call.path].content # <<>>
    /\ call.ret = "False"

\* C2: in every other combination (destination absent with either flag, or
\* present with skip_if_exists false) a load_document call whose collaborators
\* do not raise returns True, calls create_directory exactly once, with the
\* destination's parent, and download exactly once, with the url and the
\* destination it was given.
C2_DownloadsOtherwise ==
    (IsLoad /\ ~SkipCase /\ call.ret # "raised") =>
        /\ call.ret = "True"
        /\ PortCount("create_directory") = 1
        /\ PortCount("download") = 1
        /\ \A i \in 1..Len(call.trace) :
              /\ call.trace[i].port = "create_directory"
                    => call.trace[i].path = Parent(call.path)
              /\ call.trace[i].port = "download"
                    => /\ call.trace[i].url = call.url
                       /\ call.trace[i].path = call.path
        /\ call.gets = <<call.url>>

C2_Witness ==
    /\ IsLoad /\ ~call.skip /\ call.ret = "True"
    /\ IsFile(call.pre, call.path)
    /\ IsDir(call.pre, Parent(call.path))
    /\ fs[call.path] # call.pre[call.path]

\* C3: when the downloader raises during load_document, load_document raises
\* that same error and returns no boolean; download was called exactly once
\* (one GET, no retry) and no port is called after it.
C3_DownloadErrorPropagates ==
    (IsLoad /\ call.dlerr # NoError) =>
        /\ call.ret = "raised"
        /\ call.err = call.dlerr
        /\ PortCount("download") = 1
        /\ Len(call.gets) = 1
        /\ call.trace[Len(call.trace)].port = "download"

C3_Witness ==
    /\ IsLoad /\ call.dlerr = "HTTPError"
    /\ call.ret = "raised"
    /\ call.resp.status = 404

\* The call on record ran HTTPDocumentDownloader.download to its end without
\* an error, directly or inside load_document.
DownloadCompleted ==
    \/ call.op = "download" /\ call.err = NoError
    \/ IsLoad /\ call.ret = "True"

\* C4: whenever download completes without error, the destination's parent
\* is a directory and the destination is a file whose content is exactly the
\* response body, whatever it held before.
C4_DownloadWritesBody ==
    DownloadCompleted =>
        /\ IsDir(fs, Parent(call.path))
        /\ IsFile(fs, call.path)
        /\ fs[call.path].content = call.resp.body

C4_Witness ==
    /\ call.op = "download" /\ call.err = NoError
    /\ IsFile(call.pre, call.path)
    /\ Len(call.pre[call.path].content) > Len(call.resp.body)
    /\ call.resp.body # <<>>
    /\ fs[call.path].content = call.resp.body

\* The call on record issued a GET.
IssuedGet == call.op \in {"download", "load_document"} /\ call.gets # <<>>

TransportFailed == call.resp.kind = "refused" \/ call.resp.truncated

Is2xx(status) == 200 <= status /\ status < 300

\* C5 as stated: when the GET fails in transport or returns a non-2xx status,
\* download raises and the destination is as it was before the call.
C5_NoFileOnNon2xx ==
    (IssuedGet /\ (TransportFailed \/ ~Is2xx(call.resp.status))) =>
        /\ call.err # NoError
        /\ fs[call.path] = call.pre[call.path]

\* C5 amended: when the GET fails in transport or returns a 4xx or 5xx status
\* (the statuses raise_for_status raises for), download raises and the
\* destination is as it was before the call.
C5_NoFileOnErrorStatus ==
    (IssuedGet /\ (TransportFailed
                    \/ (400 <= call.resp.status /\ call.resp.status < 600))) =>
        /\ call.err # NoError
        /\ fs[call.path] = call.pre[call.path]

C5_Witness ==
    /\ call.op = "download"
    /\ call.resp.kind = "response" /\ call.resp.status = 404
    /\ call.resp.body # <<>>
    /\ call.err = "HTTPError"
    /\ IsFile(call.pre, call.path)
    /\ call.pre[call.path].content # call.resp.body

\* The two threads have both returned True.
BothTrue == \A t \in Threads : th[t].pc = "done" /\ th[t].ret = "True"

\* The writes of the concurrent run, in order.
Writes == SelectSeq(wlog, LAMBDA e : e.ev = "write")

RaceDest == th[1].path

\* C6: two concurrent load_document calls with skip_if_exists true for the
\* same absent destination can both see exists = False, both download and
\* both return True (the witness); whenever both return True, the file holds
\* the body of the write that came last, laid over the earlier one: exactly
\* that body when the second open came after the first write, and that body
\* followed by the tail of the longer earlier one when the two write_bytes
\* overlapped.
C6_LastWriteWins ==
    BothTrue =>
        /\ \A t \in Threads : ~th[t].saw
        /\ Len(wlog) = 4 /\ Len(Writes) = 2
        /\ IsFile(fs, RaceDest)
        /\ fs[RaceDest].content =
              IF wlog[2].ev = "write" THEN Writes[2].body
              ELSE Overlay(Writes[1].body, Writes[2].body)
        /\ IsPrefix(Writes[2].body, fs[RaceDest].content)

C6_Witness ==
    /\ BothTrue
    /\ \A t \in Threads : ~th[t].saw
    /\ th[1].body # th[2].body
    /\ Writes[1].t = 2 /\ Writes[2].t = 1
    /\ fs[RaceDest].content = th[1].body

\* The write of the call on record failed after the file was opened, and the
\* destination holds the part of the body that got through.
PartialWrite ==
    /\ call.err = "OSError"
    /\ IsFile(fs, call.path)
    /\ IsStrictPrefix(fs[call.path].content, call.resp.body)

\* C7 as stated: after a load_document call that ends in an error the
\* destination is absent, or in the partial state the failing write left.
C7_AbsentOrPartial ==
    (IsLoad /\ call.ret = "raised") =>
        ~PathExists(fs, call.path) \/ PartialWrite

\* C7 amended: after a load_document call that ends in an error the
\* destination is as it was before the call (absent, or the entry it held,
\* content included), or in the partial state the failing write left.
C7_UnchangedOrPartial ==
    (IsLoad /\ call.ret = "raised") =>
        fs[call.path] = call.pre[call.path] \/ PartialWrite

C7_Witness ==
    /\ IsLoad /\ call.ret = "raised" /\ ~call.skip
    /\ call.err = "HTTPError"
    /\ IsFile(call.pre, call.path)
    /\ call.pre[call.path].content # <<>>
    /\ fs[call.path] = call.pre[call.path]

\* C8: in load_document every download comes after a create_directory on the
\* destination's parent; when create_directory raises, load_document raises
\* that error and download is not called (no GET is issued).
C8_MkdirBeforeDownload ==
    IsLoad =>
        /\ \A i \in 1..Len(call.trace) :
              call.trace[i].port = "download" =>
                  \E j \in 1..(i - 1) :
                      call.trace[j] = PortCall("create_directory",
                                               Parent(call.path), "")
        /\ call.cderr # NoError =>
              /\ call.ret = "raised"
              /\ call.err = call.cderr
              /\ PortCount("download") = 0
              /\ call.gets = <<>>
              /\ fs[call.path] = call.pre[call.path]

C8_Witness ==
    /\ IsLoad /\ call.cderr = "PermissionError"
    /\ call.ret = "raised"
    /\ ~PathExists(call.pre, Parent(call.path))

IsMkdirCall == call.op \in {"create_directory", "ensure_directory_exists"}

\* C9: a create_directory or ensure_directory_exists call on a path on which
\* an earlier such call succeeded, or which is a directory already, raises
\* nothing and leaves the filesystem as it was: the path and all its
\* ancestors are directories, as after the first call.
C9_MkdirIdempotent ==
    (IsMkdirCall /\ (call.again \/ IsDir(call.pre, call.path))) =>
        /\ call.err = NoError
        /\ fs = call.pre
        /\ \A a \in Ancestors(call.path) \cup {call.path} : IsDir(fs, a)

C9_Witness ==
    /\ call.op = "ensure_directory_exists"
    /\ call.again
    /\ Len(call.path) = MaxDepth + 1
    /\ call.err = NoError

StartsWithSep(f) == f # <<>> /\ f[1] = "/"

\* C10: get_document_path(f) on a repository rooted at b returns the platform
\* join of b and f: f's components after b's, ".." and embedded separators
\* passed through as they are ("nested/path.pdf" gives b/nested/path.pdf),
\* and, as the platform join has it, a name starting with a separator in
\* place of b; the call changes neither base_directory nor the filesystem.
C10_PathJoin ==
    call.op = "get_document_path" =>
        /\ call.result = PathJoin(call.path, call.filename)
        /\ ~StartsWithSep(call.filename) =>
              /\ IsPrefix(call.path, call.result)
              /\ \A t \in {"..", "nested", "path.pdf"} :
                    Len(SelectSeq(call.result, LAMBDA c : c = t))
                        = Len(SelectSeq(call.path, LAMBDA c : c = t))
                            + Len(SelectSeq(call.filename, LAMBDA c : c = t))
        /\ call.filename = <<"nested", "/", "path.pdf">> =>
              call.result = call.path \o <<"nested", "path.pdf">>
        /\ call.filename = <<"..", "/", "nested">> =>
              call.result = call.path \o <<"..", "nested">>
        /\ base_directory = call.path
        /\ fs = call.pre

C10_Witness ==
    /\ call.op = "get_document_path"
    /\ call.filename = <<"nested", "/", "path.pdf">>
    /\ call.path = <<"/", "docs">>
    /\ call.result = <<"/", "docs", "nested", "path.pdf">>

\* The step is a load_document call on q with skip_if_exists true.
SkipCallOn(q) ==
    call'.op = "load_document" /\ call'.path = q /\ call'.skip

\* C11: across any sequence of load_document calls, once a file exists at a
\* destination (a partial file a failed write left included) it stays a
\* file; every later call on it with skip_if_exists true returns False,
\* calls neither create_directory nor download, issues no GET and leaves the
\* file as it is; its content changes only in a call on that destination
\* with skip_if_exists false.
C11_SkipKeepsFile ==
    [][\A q \in Dests :
          IsFile(fs, q) =>
              /\ IsFile(fs', q)
              /\ SkipCallOn(q) =>
                    /\ call'.ret = "False"
                    /\ call'.trace = <<PortCall("exists", q, "")>>
                    /\ call'.gets = <<>>
                    /\ fs'[q] = fs[q]
                    /\ partial' = partial
              /\ fs'[q] # fs[q] =>
                    /\ call'.op = "load_document"
                    /\ call'.path = q
                    /\ ~call'.skip]_vars

\* A call with skip_if_exists true has just met the partial file an earlier
\* call's failed write left, and skipped it.
C11_Witness ==
    /\ IsLoad /\ call.skip
    /\ call.path \in partial
    /\ IsFile(call.pre, call.path)
    /\ call.ret = "False"
    /\ fs = call.pre
====
